---- MODULE Spec2Model ----
(***************************************************************************)
(* The event-registration backend of backend/app/main.py as a state        *)
(* machine.  The store is the SQLite database (tables artists, events,     *)
(* visitors, registrations); every request handler runs in its own session *)
(* and is executed by a client process.  create_registration,              *)
(* create_visitor and delete_registration are split at their awaits, so    *)
(* that handlers of different processes interleave; the remaining          *)
(* handlers are one step each.  A refresh that directly follows a commit   *)
(* is part of the commit step.  A read sees the rows committed so far; a   *)
(* commit writes all of the session's pending changes or, when a statement *)
(* is refused, none of them (the handler then answers 500).  SQLite does   *)
(* not enforce the foreign keys (no PRAGMA foreign_keys), so only the      *)
(* primary keys constrain an INSERT.                                       *)
(*                                                                         *)
(* Spec is one client calling the whole API, one call after the other.     *)
(* ConcSpec and RaceSpec are several clients whose calls interleave.       *)
(***************************************************************************)
EXTENDS Integers, Sequences, FiniteSets, Bags, TLC

\* ---- bounds of the model ----
MaxArtists == 1
MaxEvents == 2
MaxVisitors == 2
MaxCap == 2
MaxEventIds == 2
NumProcs == 2
RaceN == 3
ConcEvents == 1

Procs == 1..NumProcs
ArtistTitles == {"t1"}
NULL == 0

\* models.py Status
Status == {"PENDING", "APPROVED", "REJECTED"}
DefaultStatus == "PENDING"

\* artists:       id -> title                          (table artists)
\* events:        id -> [capacity, artist_id, created_capacity]
\*                created_capacity records payload.capacity of create_event;
\*                it is not a column, no handler reads it
\* visitors:      the ids of table visitors
\* registrations: the rows of table registrations, a bag of
\*                [event_id, visitor_id, status]
\* proc:          per client, the handler it runs, the handler's locals and
\*                position, and the last response
VARIABLES artists, events, visitors, registrations, proc
vars == <<artists, events, visitors, registrations, proc>>

\* ---- helpers over the store ----
MaxOf(S) == CHOOSE x \in S : \A y \in S : y <= x

\* INTEGER PRIMARY KEY without AUTOINCREMENT: the next rowid is max(rowid)+1
NextId(S) == IF S = {} THEN 1 ELSE MaxOf(S) + 1

Rows == BagToSet(registrations)

\* the rows of table registrations with key (event_id, visitor_id) = (e, v)
KeyRows(e, v) == {r \in Rows : r.event_id = e /\ r.visitor_id = v}

\* a lookup that takes the key in the wrong order
GetRegistrationSwapped(e, v) == KeyRows(v, e)

\* session.get(Registration, (event_id, visitor_id))
GetRegistration(e, v) == KeyRows(e, v)

\* number of rows of table registrations with key (e, v)
PairRows(e, v) ==
  LET S == KeyRows(e, v)
      F[T \in SUBSET S] ==
        IF T = {} THEN 0
        ELSE LET r == CHOOSE x \in T : TRUE
             IN  CopiesIn(r, registrations) + F[T \ {r}]
  IN  F[S]

\* number of rows of table registrations for event e (the occupancy)
RegistrationCount(e) ==
  LET S == {r \in Rows : r.event_id = e}
      F[T \in SUBSET S] ==
        IF T = {} THEN 0
        ELSE LET r == CHOOSE x \in T : TRUE
             IN  CopiesIn(r, registrations) + F[T \ {r}]
  IN  F[S]

\* Event.visitors, loaded when line 373 reads it: the visitors joined to the
\* event through registrations
EventVisitors(e) == {v \in visitors : KeyRows(e, v) # {}}

NewRow(e, v, s) == [event_id |-> e, visitor_id |-> v, status |-> s]

\* ---- processes ----
\* capacity is event.capacity of the handler's Event object, status is
\* registration.status of its Registration object; after_delete records that
\* the client's previous call was the successful delete_registration of the
\* same pair
Idle ==
  [op |-> "none", pc |-> "idle", event_id |-> 0, visitor_id |-> 0,
   payload_status |-> "none", status |-> "none", capacity |-> 0,
   event_ids |-> <<>>, idx |-> 0, after_delete |-> FALSE,
   result |-> "none"]

Ready(p) == proc[p].pc \in {"idle", "done"}

\* the response of a handler: the call is over and its session is closed; the
\* client keeps what it called and the answer
Respond(p, res) ==
  proc' = [proc EXCEPT ![p] = [Idle EXCEPT !.op = proc[p].op, !.pc = "done",
                                  !.event_id = proc[p].event_id,
                                  !.visitor_id = proc[p].visitor_id,
                                  !.event_ids = proc[p].event_ids,
                                  !.payload_status = proc[p].payload_status,
                                  !.after_delete = proc[p].after_delete,
                                  !.result = res]]

\* a one-step handler called with (e, v) answers res
Call(p, name, e, v, res) ==
  proc' = [proc EXCEPT ![p] = [Idle EXCEPT !.op = name, !.pc = "done",
                                  !.event_id = e, !.visitor_id = v,
                                  !.result = res]]

Goto(p, label) == proc' = [proc EXCEPT ![p].pc = label]

\* ---- artists ----
create_artist(p) ==
  /\ Ready(p)
  /\ NextId(DOMAIN artists) <= MaxArtists
  /\ \E title \in ArtistTitles :
       artists' = artists @@ (NextId(DOMAIN artists) :> title)
  /\ Call(p, "create_artist", 0, 0, "201")
  /\ UNCHANGED <<events, visitors, registrations>>

\* session.delete(artist): the events of the artist keep their row and get
\* artist_id NULL (relationship Artist.events has no delete cascade)
delete_artist(p) ==
  /\ Ready(p)
  /\ \E a \in 1..MaxArtists :
       IF a \notin DOMAIN artists
       THEN /\ Call(p, "delete_artist", 0, 0, "404_artist")
            /\ UNCHANGED <<artists, events>>
       ELSE /\ artists' = [x \in DOMAIN artists \ {a} |-> artists[x]]
            /\ events' = [e \in DOMAIN events |->
                            IF events[e].artist_id = a
                            THEN [events[e] EXCEPT !.artist_id = NULL]
                            ELSE events[e]]
            /\ Call(p, "delete_artist", 0, 0, "204")
  /\ UNCHANGED <<visitors, registrations>>

\* ---- events ----
ArtistsTitled(name) == {a \in DOMAIN artists : artists[a] = name}

create_event(p) ==
  /\ Ready(p)
  /\ NextId(DOMAIN events) <= MaxEvents
  /\ \E cap \in 0..MaxCap, name \in ArtistTitles \cup {"none"} :
       IF ArtistsTitled(name) = {}
       THEN /\ Call(p, "create_event", 0, 0, "404_artist")
            /\ UNCHANGED events
       ELSE LET a == CHOOSE x \in ArtistsTitled(name) :
                       \A y \in ArtistsTitled(name) : x <= y
                e == NextId(DOMAIN events)
            IN  /\ events' = events @@
                      (e :> [capacity |-> cap, artist_id |-> a,
                             created_capacity |-> cap])
                /\ Call(p, "create_event", 0, 0, "201")
  /\ UNCHANGED <<artists, visitors, registrations>>

\* session.delete(event): the rows of the link table for the members of
\* Event.visitors are deleted with it
delete_event(p) ==
  /\ Ready(p)
  /\ \E e \in 1..MaxEvents :
       IF e \notin DOMAIN events
       THEN /\ Call(p, "delete_event", 0, 0, "404_event")
            /\ UNCHANGED <<events, registrations>>
       ELSE /\ events' = [x \in DOMAIN events \ {e} |-> events[x]]
            /\ registrations' =
                 [r \in {x \in Rows : ~(x.event_id = e /\ x.visitor_id \in visitors)}
                    |-> registrations[r]]
            /\ Call(p, "delete_event", 0, 0, "204")
  /\ UNCHANGED <<artists, visitors>>

\* ---- visitors ----
\* session.delete(visitor): the rows of the link table for the members of
\* Visitor.events are deleted with it
delete_visitor(p) ==
  /\ Ready(p)
  /\ \E v \in 1..MaxVisitors :
       IF v \notin visitors
       THEN /\ Call(p, "delete_visitor", 0, 0, "404_visitor")
            /\ UNCHANGED <<visitors, registrations>>
       ELSE /\ visitors' = visitors \ {v}
            /\ registrations' =
                 [r \in {x \in Rows : ~(x.visitor_id = v /\ x.event_id \in DOMAIN events)}
                    |-> registrations[r]]
            /\ Call(p, "delete_visitor", 0, 0, "204")
  /\ UNCHANGED <<artists, events>>

EventIdLists == UNION {[1..n -> 1..MaxEvents] : n \in 0..MaxEventIds}

\* lines 262-265 and 268-269: the visitor row is committed first
VisCommitVisitor(p) ==
  /\ Ready(p)
  /\ NextId(visitors) <= MaxVisitors
  /\ \E ids \in EventIdLists :
       /\ visitors' = visitors \cup {NextId(visitors)}
       /\ proc' = [proc EXCEPT ![p] =
            [Idle EXCEPT !.op = "create_visitor",
                         !.visitor_id = NextId(visitors),
                         !.event_ids = ids,
                         !.idx = IF ids = <<>> THEN 0 ELSE 1,
                         !.pc = IF ids = <<>> THEN "done" ELSE "vis_get_event",
                         !.result = IF ids = <<>> THEN "201" ELSE "none"]]
  /\ UNCHANGED <<artists, events, registrations>>

\* a loop that takes the visitor back when an event is missing
VisGetEventUndoesVisitor(p) ==
  /\ proc[p].pc = "vis_get_event"
  /\ LET eid == proc[p].event_ids[proc[p].idx]
     IN  IF eid \notin DOMAIN events
         THEN /\ Respond(p, "404_event")
              /\ visitors' = visitors \ {proc[p].visitor_id}
         ELSE /\ IF proc[p].idx = Len(proc[p].event_ids)
                 THEN Goto(p, "vis_commit")
                 ELSE proc' = [proc EXCEPT ![p].idx = @ + 1]
              /\ UNCHANGED visitors
  /\ UNCHANGED <<artists, events, registrations>>

\* lines 270-276: one turn of the loop over payload.event_ids
VisGetEvent(p) ==
  /\ proc[p].pc = "vis_get_event"
  /\ LET eid == proc[p].event_ids[proc[p].idx]
     IN  IF eid \notin DOMAIN events
         THEN Respond(p, "404_event")
         ELSE IF proc[p].idx = Len(proc[p].event_ids)
              THEN Goto(p, "vis_commit")
              ELSE proc' = [proc EXCEPT ![p].idx = @ + 1]
  /\ UNCHANGED <<artists, events, visitors, registrations>>

\* the rows of regs, one per entry of event_ids, with the default status
VisRegs(p) ==
  [i \in 1..Len(proc[p].event_ids) |->
     NewRow(proc[p].event_ids[i], proc[p].visitor_id, DefaultStatus)]

\* a table registrations that has no primary key
NoPrimaryKey(rows) == FALSE

\* the primary key (event_id, visitor_id) refuses the INSERT of these rows
PrimaryKeyConflict(rows) ==
  \/ \E i \in DOMAIN rows : KeyRows(rows[i].event_id, rows[i].visitor_id) # {}
  \/ \E i, j \in DOMAIN rows :
       i # j /\ rows[i].event_id = rows[j].event_id
             /\ rows[i].visitor_id = rows[j].visitor_id

InsertAll(rows) ==
  LET F[i \in 0..Len(rows)] ==
        IF i = 0 THEN registrations ELSE F[i - 1] (+) SetToBag({rows[i]})
  IN  F[Len(rows)]

\* lines 277-282: session.add_all(regs) and the commit
VisCommitRegs(p) ==
  /\ proc[p].pc = "vis_commit"
  /\ IF PrimaryKeyConflict(VisRegs(p))
     THEN /\ Respond(p, "500")
          /\ UNCHANGED registrations
     ELSE /\ registrations' = InsertAll(VisRegs(p))
          /\ Respond(p, "201")
  /\ UNCHANGED <<artists, events, visitors>>

\* ---- register ----
\* the request arrives: line 347
RegBegin(p) ==
  /\ Ready(p)
  /\ \E e \in 1..MaxEvents, v \in 1..MaxVisitors, s \in Status :
       proc' = [proc EXCEPT ![p] =
         [Idle EXCEPT !.op = "create_registration", !.pc = "get_event",
                      !.event_id = e, !.visitor_id = v,
                      !.payload_status = s, !.status = s,
                      !.after_delete =
                         /\ proc[p].op = "delete_registration"
                         /\ proc[p].result = "204"
                         /\ proc[p].event_id = e
                         /\ proc[p].visitor_id = v]]
  /\ UNCHANGED <<artists, events, visitors, registrations>>

\* lines 349-355
RegGetEvent(p) ==
  /\ proc[p].pc = "get_event"
  /\ IF proc[p].event_id \notin DOMAIN events
     THEN Respond(p, "404_event")
     ELSE proc' = [proc EXCEPT ![p].pc = "get_visitor",
                               ![p].capacity = events[proc[p].event_id].capacity]
  /\ UNCHANGED <<artists, events, visitors, registrations>>

\* a handler that does not look the visitor up
RegGetVisitorSkipped(p) ==
  /\ proc[p].pc = "get_visitor"
  /\ Goto(p, "get_registration")
  /\ UNCHANGED <<artists, events, visitors, registrations>>

\* lines 356-362
RegGetVisitor(p) ==
  /\ proc[p].pc = "get_visitor"
  /\ IF proc[p].visitor_id \notin visitors
     THEN Respond(p, "404_visitor")
     ELSE Goto(p, "get_registration")
  /\ UNCHANGED <<artists, events, visitors, registrations>>

\* a handler that checks the capacity before the duplicate
RegGetRegistrationAfterCapacity(p) ==
  /\ proc[p].pc = "get_registration"
  /\ IF proc[p].capacity <= Cardinality(EventVisitors(proc[p].event_id))
     THEN Respond(p, "400_capacity")
     ELSE IF GetRegistration(proc[p].event_id, proc[p].visitor_id) # {}
          THEN Respond(p, "400_duplicate")
          ELSE Goto(p, "check_capacity")
  /\ UNCHANGED <<artists, events, visitors, registrations>>

\* lines 363-371
RegGetRegistration(p) ==
  /\ proc[p].pc = "get_registration"
  /\ IF GetRegistration(proc[p].event_id, proc[p].visitor_id) # {}
     THEN Respond(p, "400_duplicate")
     ELSE Goto(p, "check_capacity")
  /\ UNCHANGED <<artists, events, visitors, registrations>>

\* a comparison that lets a capacity equal to the count pass
CapacityBelow(capacity, n) == capacity < n

\* line 373: event.capacity <= len(event.visitors)
CapacityReached(capacity, n) == capacity <= n

\* a handler that writes the lowered capacity to the store before the check
RegCheckCapacityEager(p) ==
  /\ proc[p].pc = "check_capacity"
  /\ IF proc[p].event_id \in DOMAIN events
     THEN events' = [events EXCEPT ![proc[p].event_id].capacity = proc[p].capacity - 1]
     ELSE UNCHANGED events
  /\ IF CapacityReached(proc[p].capacity, Cardinality(EventVisitors(proc[p].event_id)))
     THEN Respond(p, "400_capacity")
     ELSE proc' = [proc EXCEPT ![p].pc = "commit",
                               ![p].capacity = @ - 1,
                               ![p].status = "APPROVED"]
  /\ UNCHANGED <<artists, visitors, registrations>>

\* a handler without line 381: the row keeps the status of the payload
RegCheckCapacityKeepStatus(p) ==
  /\ proc[p].pc = "check_capacity"
  /\ IF CapacityReached(proc[p].capacity, Cardinality(EventVisitors(proc[p].event_id)))
     THEN Respond(p, "400_capacity")
     ELSE proc' = [proc EXCEPT ![p].pc = "commit",
                               ![p].capacity = @ - 1]
  /\ UNCHANGED <<artists, events, visitors, registrations>>

\* lines 372-384: the lazy load of event.visitors, the check, and the changes
\* made in the session
RegCheckCapacity(p) ==
  /\ proc[p].pc = "check_capacity"
  /\ IF CapacityReached(proc[p].capacity, Cardinality(EventVisitors(proc[p].event_id)))
     THEN Respond(p, "400_capacity")
     ELSE proc' = [proc EXCEPT ![p].pc = "commit",
                               ![p].capacity = @ - 1,
                               ![p].status = "APPROVED"]
  /\ UNCHANGED <<artists, events, visitors, registrations>>

\* a commit without line 380: the UPDATE of events is missing
RegCommitKeepCapacity(p) ==
  /\ proc[p].pc = "commit"
  /\ LET e == proc[p].event_id
         row == NewRow(e, proc[p].visitor_id, proc[p].status)
     IN  IF e \notin DOMAIN events \/ PrimaryKeyConflict(<<row>>)
         THEN /\ Respond(p, "500")
              /\ UNCHANGED registrations
         ELSE /\ registrations' = InsertAll(<<row>>)
              /\ Respond(p, "201")
  /\ UNCHANGED <<artists, events, visitors>>

\* lines 386-388: the flush (UPDATE events, INSERT registrations) and commit
RegCommit(p) ==
  /\ proc[p].pc = "commit"
  /\ LET e == proc[p].event_id
         row == NewRow(e, proc[p].visitor_id, proc[p].status)
     IN  IF e \notin DOMAIN events \/ PrimaryKeyConflict(<<row>>)
         THEN /\ Respond(p, "500")
              /\ UNCHANGED <<events, registrations>>
         ELSE /\ events' = [events EXCEPT ![e].capacity = proc[p].capacity]
              /\ registrations' = InsertAll(<<row>>)
              /\ Respond(p, "201")
  /\ UNCHANGED <<artists, visitors>>

\* lines 409-414
DelBegin(p) ==
  /\ Ready(p)
  /\ \E e \in 1..MaxEvents, v \in 1..MaxVisitors :
       IF GetRegistration(e, v) = {}
       THEN Call(p, "delete_registration", e, v, "404_registration")
       ELSE proc' = [proc EXCEPT ![p] =
              [Idle EXCEPT !.op = "delete_registration", !.pc = "del_commit",
                           !.event_id = e, !.visitor_id = v]]
  /\ UNCHANGED <<artists, events, visitors, registrations>>

\* a DELETE that names only the event
DelCommitWholeEvent(p) ==
  /\ proc[p].pc = "del_commit"
  /\ LET gone == {r \in Rows : r.event_id = proc[p].event_id}
     IN  IF gone = {}
         THEN /\ Respond(p, "500")
              /\ UNCHANGED registrations
         ELSE /\ registrations' = [r \in Rows \ gone |-> registrations[r]]
              /\ Respond(p, "204")
  /\ UNCHANGED <<artists, events, visitors>>

\* a delete that gives the unit of capacity back
DelCommitRestores(p) ==
  /\ proc[p].pc = "del_commit"
  /\ LET e == proc[p].event_id
         gone == KeyRows(e, proc[p].visitor_id)
     IN  IF gone = {} \/ e \notin DOMAIN events
         THEN /\ Respond(p, "500")
              /\ UNCHANGED <<events, registrations>>
         ELSE /\ registrations' = [r \in Rows \ gone |-> registrations[r]]
              /\ events' = [events EXCEPT ![e].capacity = @ + 1]
              /\ Respond(p, "204")
  /\ UNCHANGED <<artists, visitors>>

\* lines 416-418
DelCommit(p) ==
  /\ proc[p].pc = "del_commit"
  /\ LET gone == GetRegistration(proc[p].event_id, proc[p].visitor_id)
     IN  IF gone = {}
         THEN /\ Respond(p, "500")
              /\ UNCHANGED registrations
         ELSE /\ registrations' = [r \in Rows \ gone |-> registrations[r]]
              /\ Respond(p, "204")
  /\ UNCHANGED <<artists, events, visitors>>

\* ---- specifications ----
Init ==
  /\ artists = <<>>
  /\ events = <<>>
  /\ visitors = {}
  /\ registrations = EmptyBag
  /\ proc = [p \in {1} |-> Idle]

Next ==
  \/ \E p \in DOMAIN proc : create_artist(p)
  \/ \E p \in DOMAIN proc : delete_artist(p)
  \/ \E p \in DOMAIN proc : create_event(p)
  \/ \E p \in DOMAIN proc : delete_event(p)
  \/ \E p \in DOMAIN proc : delete_visitor(p)
  \/ \E p \in DOMAIN proc : VisCommitVisitor(p)
  \/ \E p \in DOMAIN proc : VisGetEvent(p)
  \/ \E p \in DOMAIN proc : VisCommitRegs(p)
  \/ \E p \in DOMAIN proc : RegBegin(p)
  \/ \E p \in DOMAIN proc : RegGetEvent(p)
  \/ \E p \in DOMAIN proc : RegGetVisitor(p)
  \/ \E p \in DOMAIN proc : RegGetRegistration(p)
  \/ \E p \in DOMAIN proc : RegCheckCapacity(p)
  \/ \E p \in DOMAIN proc : RegCommit(p)
  \/ \E p \in DOMAIN proc : DelBegin(p)
  \/ \E p \in DOMAIN proc : DelCommit(p)

Spec == Init /\ [][Next]_vars

\* Concurrent clients on a store that holds one artist and its events: the
\* handlers that write table registrations, interleaved at their awaits.
ConcInit ==
  /\ artists = (1 :> "t1")
  /\ \E caps \in [1..ConcEvents -> 0..MaxCap] :
       events = [e \in 1..ConcEvents |->
                   [capacity |-> caps[e], artist_id |-> 1,
                    created_capacity |-> caps[e]]]
  /\ visitors = {}
  /\ registrations = EmptyBag
  /\ proc = [p \in Procs |-> Idle]

ConcNext ==
  \/ \E p \in DOMAIN proc : VisCommitVisitor(p)
  \/ \E p \in DOMAIN proc : VisGetEvent(p)
  \/ \E p \in DOMAIN proc : VisCommitRegs(p)
  \/ \E p \in DOMAIN proc : RegBegin(p)
  \/ \E p \in DOMAIN proc : RegGetEvent(p)
  \/ \E p \in DOMAIN proc : RegGetVisitor(p)
  \/ \E p \in DOMAIN proc : RegGetRegistration(p)
  \/ \E p \in DOMAIN proc : RegCheckCapacity(p)
  \/ \E p \in DOMAIN proc : RegCommit(p)
  \/ \E p \in DOMAIN proc : DelBegin(p)
  \/ \E p \in DOMAIN proc : DelCommit(p)

ConcSpec == ConcInit /\ [][ConcNext]_vars

\* One client that only registers and unregisters, on a store that holds one
\* artist, its events and the visitors.
RegOnlyInit ==
  /\ artists = (1 :> "t1")
  /\ \E caps \in [1..MaxEvents -> 0..MaxCap] :
       events = [e \in 1..MaxEvents |->
                   [capacity |-> caps[e], artist_id |-> 1,
                    created_capacity |-> caps[e]]]
  /\ visitors = 1..MaxVisitors
  /\ registrations = EmptyBag
  /\ proc = [p \in {1} |-> Idle]

RegOnlyNext ==
  \/ \E p \in DOMAIN proc : RegBegin(p)
  \/ \E p \in DOMAIN proc : RegGetEvent(p)
  \/ \E p \in DOMAIN proc : RegGetVisitor(p)
  \/ \E p \in DOMAIN proc : RegGetRegistration(p)
  \/ \E p \in DOMAIN proc : RegCheckCapacity(p)
  \/ \E p \in DOMAIN proc : RegCommit(p)
  \/ \E p \in DOMAIN proc : DelBegin(p)
  \/ \E p \in DOMAIN proc : DelCommit(p)

RegOnlySpec == RegOnlyInit /\ [][RegOnlyNext]_vars

\* The race of section 8: RaceN register calls, one per visitor, issued at
\* once against one event of capacity C < RaceN that has no registrations.
RaceInit ==
  /\ artists = (1 :> "t1")
  /\ \E c \in 0..(RaceN - 1) :
       events = (1 :> [capacity |-> c, artist_id |-> 1, created_capacity |-> c])
  /\ visitors = 1..RaceN
  /\ registrations = EmptyBag
  /\ \E s \in Status :
       proc = [p \in 1..RaceN |->
                 [Idle EXCEPT !.op = "create_registration", !.pc = "get_event",
                              !.event_id = 1, !.visitor_id = p,
                              !.payload_status = s, !.status = s]]

RaceNext ==
  \/ \E p \in DOMAIN proc : RegGetEvent(p)
  \/ \E p \in DOMAIN proc : RegGetVisitor(p)
  \/ \E p \in DOMAIN proc : RegGetRegistration(p)
  \/ \E p \in DOMAIN proc : RegCheckCapacity(p)
  \/ \E p \in DOMAIN proc : RegCommit(p)

RaceSpec == RaceInit /\ [][RaceNext]_vars

\* ---- the claims ----
Done(p, name) == proc[p].pc = "done" /\ proc[p].op = name

\* process p is inside a create_registration call and takes a step of it
RegStep(p) ==
  /\ proc[p].op = "create_registration"
  /\ proc[p].pc \notin {"idle", "done"}
  /\ proc'[p] # proc[p]

\* process p takes the step that ends its create_registration call
RegEnds(p) == RegStep(p) /\ proc'[p].pc = "done"

FailedPrecondition == {"404_event", "404_visitor", "400_duplicate", "400_capacity"}

\* C1: under concurrent create_registration calls for distinct visitors, the
\* number of Registration rows of an event never exceeds the capacity the
\* event was created with.
C1_CapacityNeverExceeded ==
  \A e \in DOMAIN events : RegistrationCount(e) <= events[e].created_capacity

\* C2: when the N concurrent register calls of the race (capacity C < N, no
\* prior registrations) have all returned, exactly C of them succeeded, the
\* other N - C got capacity-exceeded, and the event has C rows.
C2_ExactlyCapacitySucceed ==
  (\A p \in DOMAIN proc : proc[p].pc = "done") =>
    LET C == events[1].created_capacity
    IN  /\ Cardinality({p \in DOMAIN proc : proc[p].result = "201"}) = C
        /\ Cardinality({p \in DOMAIN proc : proc[p].result = "400_capacity"})
              = Cardinality(DOMAIN proc) - C
        /\ RegistrationCount(1) = C

\* C3: in a sequential execution a register call that passes the existence
\* and duplicate checks succeeds exactly when the event had fewer rows than
\* the capacity it was created with, and fails with capacity-exceeded
\* otherwise.  (After a success the event has one row more than before.)
C3_SucceedsIffRoom ==
  \A p \in DOMAIN proc :
    (Done(p, "create_registration") /\ proc[p].event_id \in DOMAIN events) =>
      LET e == proc[p].event_id
      IN  /\ proc[p].result = "201" =>
                RegistrationCount(e) - 1 < events[e].created_capacity
          /\ proc[p].result = "400_capacity" =>
                ~(RegistrationCount(e) < events[e].created_capacity)

\* C4: no step of a register call changes the stored capacity of any event.
C4_CapacityFieldUnchanged ==
  [][\A p \in DOMAIN proc :
       RegStep(p) =>
         \A e \in DOMAIN events :
           e \in DOMAIN events' /\ events'[e].capacity = events[e].capacity]_vars

\* C5: a register call that directly follows the successful
\* delete_registration of the same pair succeeds and the pair is registered.
\* Stated for the events the claim is about, those whose rows were within
\* the created capacity before the deletion, so that the deletion left room:
\* a refused call found fewer rows than the created capacity.
C5_ReRegisterAfterDelete ==
  \A p \in DOMAIN proc :
    (/\ Done(p, "create_registration")
     /\ proc[p].after_delete
     /\ proc[p].event_id \in DOMAIN events
     /\ proc[p].result # "201" =>
           RegistrationCount(proc[p].event_id)
             < events[proc[p].event_id].created_capacity) =>
      /\ proc[p].result = "201"
      /\ KeyRows(proc[p].event_id, proc[p].visitor_id) # {}

\* C6: a sequential register call for a pair that has a Registration row,
\* with event and visitor existing, ends with the duplicate error, changes
\* no row, and the pair has exactly one row.
C6_DuplicateRejected ==
  [][\A p \in DOMAIN proc :
       (/\ RegEnds(p)
        /\ proc[p].event_id \in DOMAIN events
        /\ proc[p].visitor_id \in visitors
        /\ KeyRows(proc[p].event_id, proc[p].visitor_id) # {}) =>
         /\ proc'[p].result = "400_duplicate"
         /\ registrations' = registrations
         /\ PairRows(proc[p].event_id, proc[p].visitor_id) = 1]_vars

C6_Witness ==
  \E p \in DOMAIN proc :
    /\ Done(p, "create_registration")
    /\ proc[p].result = "400_duplicate"
    /\ PairRows(proc[p].event_id, proc[p].visitor_id) = 1

\* C7: under any interleaving of create_registration, create_visitor and
\* delete_registration there is at most one Registration row per
\* (event_id, visitor_id) pair.
C7_PairUnique ==
  \A r \in Rows : PairRows(r.event_id, r.visitor_id) = 1

\* a create_visitor and a create_registration of two clients raced for the
\* same pair: one inserted the row, the other was refused
C7_Witness ==
  \E p, q \in DOMAIN proc :
    /\ Done(p, "create_visitor") /\ proc[p].result = "500"
    /\ Done(q, "create_registration") /\ proc[q].result = "201"
    /\ proc[q].visitor_id = proc[p].visitor_id
    /\ proc[p].event_ids = <<proc[q].event_id>>
    /\ PairRows(proc[q].event_id, proc[q].visitor_id) = 1

\* C8: a sequential register call whose event or visitor does not exist
\* ends with NotFound and creates no row.
C8_MissingIsNotFound ==
  [][\A p \in DOMAIN proc :
       (/\ RegEnds(p)
        /\ \/ proc[p].event_id \notin DOMAIN events
           \/ proc[p].visitor_id \notin visitors) =>
         /\ proc'[p].result \in {"404_event", "404_visitor"}
         /\ registrations' = registrations]_vars

C8_Witness ==
  \E p \in DOMAIN proc :
    /\ Done(p, "create_registration")
    /\ proc[p].result = "404_visitor"
    /\ proc[p].event_id \in DOMAIN events
    /\ proc[p].visitor_id \notin visitors
    /\ KeyRows(proc[p].event_id, proc[p].visitor_id) = {}

\* C9: a register call that fails one of its four preconditions leaves the
\* store unchanged: a failing call consists of the steps before the commit,
\* none of them writes, and the commit never reports a failed precondition.
C9_FailureLeavesStore ==
  [][\A p \in DOMAIN proc :
       RegStep(p) =>
         /\ proc[p].pc # "commit" =>
               UNCHANGED <<artists, events, visitors, registrations>>
         /\ proc[p].pc = "commit" =>
               proc'[p].result \notin FailedPrecondition]_vars

C9_Witness ==
  \E p \in DOMAIN proc :
    /\ Done(p, "create_registration")
    /\ proc[p].result = "400_capacity"
    /\ proc[p].event_id \in DOMAIN events
    /\ events[proc[p].event_id].capacity > 0

\* C10: no committed Registration row has status PENDING.
C10_NoPendingRow ==
  \A r \in Rows : r.status # "PENDING"

\* C11: no step produces a row with status REJECTED: a register call that
\* ends without success changes no row, and one that succeeds adds exactly
\* the row of its pair with status APPROVED, whatever status the payload had.
C11_NeverRejected ==
  [][/\ \A r \in BagToSet(registrations') : r.status # "REJECTED"
     /\ \A p \in DOMAIN proc :
          RegEnds(p) =>
            IF proc'[p].result = "201"
            THEN registrations' = registrations (+)
                   SetToBag({NewRow(proc[p].event_id, proc[p].visitor_id, "APPROVED")})
            ELSE registrations' = registrations]_vars

C11_Witness ==
  \E p \in DOMAIN proc :
    /\ Done(p, "create_registration")
    /\ proc[p].result = "201"
    /\ proc[p].payload_status = "REJECTED"
    /\ KeyRows(proc[p].event_id, proc[p].visitor_id)
         = {NewRow(proc[p].event_id, proc[p].visitor_id, "APPROVED")}

\* C12: every Event row's artist_id refers to an Artist row that exists.
C12_EventHasArtist ==
  \A e \in DOMAIN events : events[e].artist_id \in DOMAIN artists

\* C13: a sequential register call reports the first precondition that fails
\* in the order event, visitor, duplicate, capacity: a missing event is
\* reported as such also when the visitor is missing, and an existing pair
\* on a full event is reported as duplicate.
C13_FirstFailureReported ==
  [][\A p \in DOMAIN proc :
       RegEnds(p) =>
         LET e == proc[p].event_id
             v == proc[p].visitor_id
         IN  IF e \notin DOMAIN events THEN proc'[p].result = "404_event"
             ELSE IF v \notin visitors THEN proc'[p].result = "404_visitor"
             ELSE IF KeyRows(e, v) # {} THEN proc'[p].result = "400_duplicate"
             ELSE proc'[p].result \in {"400_capacity", "201"}]_vars

\* an existing pair on an event that is full was reported as duplicate
C13_Witness ==
  \E p \in DOMAIN proc :
    /\ Done(p, "create_registration")
    /\ proc[p].result = "400_duplicate"
    /\ proc[p].event_id \in DOMAIN events
    /\ events[proc[p].event_id].capacity <= RegistrationCount(proc[p].event_id)

\* process p takes a step of a delete_registration call
DelStep(p) ==
  /\ proc'[p].op = "delete_registration"
  /\ proc'[p] # proc[p]
  /\ proc[p].pc \in {"idle", "done", "del_commit"}

\* C14: a sequential delete_registration(e, v) removes exactly the row of
\* the pair and answers 204 when the row exists; when it does not, it
\* answers 404 and leaves the store unchanged.
C14_DeleteExactlyThePair ==
  [][\A p \in DOMAIN proc :
       DelStep(p) =>
         LET e == proc'[p].event_id
             v == proc'[p].visitor_id
         IN  /\ UNCHANGED <<artists, events, visitors>>
             /\ proc'[p].pc # "done" => registrations' = registrations
             /\ proc'[p].pc = "done" =>
                   IF KeyRows(e, v) # {}
                   THEN /\ proc'[p].result = "204"
                        /\ registrations' =
                             [r \in Rows \ KeyRows(e, v) |-> registrations[r]]
                   ELSE /\ proc'[p].result = "404_registration"
                        /\ registrations' = registrations]_vars

\* a pair was deleted and another row is still there
C14_Witness ==
  \E p \in DOMAIN proc :
    /\ Done(p, "delete_registration")
    /\ proc[p].result = "204"
    /\ KeyRows(proc[p].event_id, proc[p].visitor_id) = {}
    /\ \E r \in Rows : r.event_id = proc[p].event_id

\* C15: when create_visitor has stored the rows of its event_ids, none of
\* the listed events has more rows than the capacity it was created with.
C15_VisitorRowsWithinCapacity ==
  \A p \in DOMAIN proc :
    Done(p, "create_visitor") /\ proc[p].result = "201" =>
      \A i \in DOMAIN proc[p].event_ids :
        LET e == proc[p].event_ids[i]
        IN  e \in DOMAIN events =>
              RegistrationCount(e) <= events[e].created_capacity

C18_CapacityNeverNegative ==
  /\ \A e \in DOMAIN events : events[e].capacity >= 0
  /\ \A p \in DOMAIN proc : proc[p].pc = "commit" => proc[p].capacity >= 0

\* two concurrent register calls on one event both succeeded and the stored
\* capacity went down by one only
C18_Witness ==
  \E p, q \in DOMAIN proc :
    /\ p # q
    /\ Done(p, "create_registration") /\ proc[p].result = "201"
    /\ Done(q, "create_registration") /\ proc[q].result = "201"
    /\ proc[p].event_id = proc[q].event_id
    /\ proc[p].event_id \in DOMAIN events
    /\ events[proc[p].event_id].capacity
         = events[proc[p].event_id].created_capacity - 1

\* C19: a create_visitor call whose event_ids name a missing event answers
\* 404, stores no Registration row, and leaves its new Visitor row in the
\* store.
C19_VisitorKeptOnFailure ==
  [][\A p \in DOMAIN proc :
       (/\ proc'[p] # proc[p]
        /\ proc'[p].op = "create_visitor"
        /\ proc'[p].pc = "done"
        /\ \E i \in DOMAIN proc'[p].event_ids :
             proc'[p].event_ids[i] \notin DOMAIN events)
       => /\ proc'[p].result = "404_event"
          /\ registrations' = registrations
          /\ \A r \in BagToSet(registrations') :
               r.visitor_id # proc'[p].visitor_id
          /\ proc'[p].visitor_id \in visitors']_vars

\* the call listed an existing event before the missing one
C19_Witness ==
  \E p \in DOMAIN proc :
    /\ Done(p, "create_visitor")
    /\ proc[p].result = "404_event"
    /\ Len(proc[p].event_ids) = 2
    /\ proc[p].event_ids[1] \in DOMAIN events
    /\ proc[p].event_ids[2] \notin DOMAIN events
    /\ proc[p].visitor_id \in visitors
    /\ \A r \in Rows : r.visitor_id # proc[p].visitor_id

====
